---- MODULE Spec2Model ----
(***************************************************************************)
(* A model of the veryfi client library's resource glue: the Documents     *)
(* and W9s mixins (src/veryfi/documents.py, src/veryfi/w9s.py) and the     *)
(* Client that composes them (src/veryfi/client.py).                       *)
(*                                                                         *)
(* Python values are tagged records, so that values of different Python    *)
(* types can be compared: None, PyStr("a"), PyInt(3), PyBool(TRUE),        *)
(* PyList(<<>>), PyDict(<<>>).  The mapping inside a dict is an            *)
(* insertion-ordered sequence of <<key, value>> pairs with distinct keys,  *)
(* as Python's dict is.  A str that the code takes apart (a path given to  *)
(* os.path.basename) is a sequence of one-character strings; ToStr joins   *)
(* it into a string.                                                       *)
(***************************************************************************)
EXTENDS Integers, Sequences, FiniteSets, TLC

VARIABLES
    client,      \* Documents.client / W9s.client, set by __init__
    CATEGORIES,  \* the class attribute Documents.CATEGORIES
    calls,       \* number of public method calls made so far
    history,     \* how each of those calls ended, oldest first
    log,         \* for each request client.request received, oldest first,
                 \* the number of the call that dispatched it
    method,      \* name of the last public method called
    args,        \* the arguments of that call
    outcome,     \* "none", "pending", "returned", "raised_before", "raised_request"
    req,         \* the request that call dispatched, NoRequest if none
    resp,        \* what client.request returned to that call
    ret          \* what that call returned to its caller

vars == <<client, CATEGORIES, calls, history, log, method, args, outcome, req, resp, ret>>

(***************************************************************************)
(* Bounds of the model.                                                    *)
(***************************************************************************)
MaxCalls == 3     \* public method calls in one session
MaxKwargs == 1    \* entries of a **kwargs mapping

(***************************************************************************)
(* Python values.                                                          *)
(***************************************************************************)
None == [t |-> "None"]
Absent == [t |-> "absent"]  \* an argument the caller did not pass
PyStr(s) == [t |-> "str", v |-> s]
PyInt(n) == [t |-> "int", v |-> n]
PyBool(b) == [t |-> "bool", v |-> b]
PyList(xs) == [t |-> "list", v |-> xs]
PyDict(ps) == [t |-> "dict", v |-> ps]

\* bool(v)
Truthy(v) ==
    CASE v.t = "None" -> FALSE
      [] v.t = "str" -> v.v # ""
      [] v.t = "int" -> v.v # 0
      [] v.t = "bool" -> v.v
      [] v.t = "list" -> Len(v.v) > 0
      [] v.t = "dict" -> Len(v.v) > 0

Digit(d) == <<"0", "1", "2", "3", "4", "5", "6", "7", "8", "9">>[d + 1]

RECURSIVE NatToStr(_)
NatToStr(n) == IF n < 10 THEN Digit(n) ELSE NatToStr(n \div 10) \o Digit(n % 10)

\* str(v), as "{}".format(v) and f"{v}" compute it
Format(v) ==
    CASE v.t = "None" -> "None"
      [] v.t = "str" -> v.v
      [] v.t = "int" -> IF v.v < 0 THEN "-" \o NatToStr(-v.v) ELSE NatToStr(v.v)
      [] v.t = "bool" -> IF v.v THEN "True" ELSE "False"

RECURSIVE ToStr(_)
ToStr(cs) == IF cs = <<>> THEN "" ELSE Head(cs) \o ToStr(Tail(cs))

RECURSIVE Join(_, _)
\* sep.join(parts)
Join(sep, parts) ==
    IF parts = <<>> THEN ""
    ELSE IF Len(parts) = 1 THEN parts[1]
    ELSE parts[1] \o sep \o Join(sep, Tail(parts))

(***************************************************************************)
(* dict operations on pair sequences.                                      *)
(***************************************************************************)
Keys(d) == {d[i][1] : i \in DOMAIN d}
HasKey(d, k) == \E i \in DOMAIN d : d[i][1] = k
Get(d, k) == d[CHOOSE i \in DOMAIN d : d[i][1] = k][2]

\* d[k] = v
SetItem(d, k, v) ==
    IF HasKey(d, k)
    THEN [i \in DOMAIN d |-> IF d[i][1] = k THEN <<k, v>> ELSE d[i]]
    ELSE Append(d, <<k, v>>)

RECURSIVE Update(_, _)
\* d.update(e)
Update(d, e) == IF e = <<>> THEN d ELSE Update(SetItem(d, e[1][1], e[1][2]), Tail(e))

\* key in container, for a dict (its keys) and a list (its elements)
Contains(c, k) ==
    CASE c.t = "dict" -> HasKey(c.v, k)
      [] c.t = "list" -> \E i \in DOMAIN c.v : c.v[i] = PyStr(k)

\* an argument, or its default when the caller did not pass it
Arg(a, name, default) == IF a[name] = Absent THEN default ELSE a[name]

(***************************************************************************)
(* os.path.basename and base64.b64encode.                                  *)
(***************************************************************************)
\* os.path.basename(p): what follows the last "/"
basename(p) ==
    LET slashes == {i \in DOMAIN p : p[i] = "/"}
        last == IF slashes = {} THEN 0
                ELSE CHOOSE i \in slashes : \A j \in slashes : j <= i
    IN  SubSeq(p, last + 1, Len(p))

B64Alphabet ==
    <<"A", "B", "C", "D", "E", "F", "G", "H", "I", "J", "K", "L", "M",
      "N", "O", "P", "Q", "R", "S", "T", "U", "V", "W", "X", "Y", "Z",
      "a", "b", "c", "d", "e", "f", "g", "h", "i", "j", "k", "l", "m",
      "n", "o", "p", "q", "r", "s", "t", "u", "v", "w", "x", "y", "z",
      "0", "1", "2", "3", "4", "5", "6", "7", "8", "9", "+", "/">>

B64Char(n) == B64Alphabet[n + 1]

RECURSIVE b64encode(_)
\* base64.b64encode(bytes).decode("utf-8")
b64encode(bs) ==
    IF bs = <<>> THEN ""
    ELSE IF Len(bs) = 1 THEN
        B64Char(bs[1] \div 4) \o B64Char((bs[1] % 4) * 16) \o "=="
    ELSE IF Len(bs) = 2 THEN
        B64Char(bs[1] \div 4) \o B64Char((bs[1] % 4) * 16 + bs[2] \div 16)
            \o B64Char((bs[2] % 16) * 4) \o "="
    ELSE
        B64Char(bs[1] \div 4) \o B64Char((bs[1] % 4) * 16 + bs[2] \div 16)
            \o B64Char((bs[2] % 16) * 4 + bs[3] \div 64) \o B64Char(bs[3] % 64)
            \o b64encode(SubSeq(bs, 4, Len(bs)))

(***************************************************************************)
(* The environment: the files on disk and what client.request can do.      *)
(***************************************************************************)
PathReceipt == <<"d", "/", "r", ".", "j">>
PathNote == <<"n">>
PathMissing == <<"x", "/", "m">>
Paths == {PathReceipt, PathNote, PathMissing}

\* the bytes of the files that open(file_path, "rb") can read
Files == (PathReceipt :> <<77, 97, 110, 33>>) @@ (PathNote :> <<77, 97>>)

\* open(file_path, "rb") succeeds
CanOpen(p) == p \in DOMAIN Files

DocA == PyDict(<< <<"id", PyInt(3)>> >>)

\* the deserialized responses client.request can return
Responses ==
    { PyDict(<<>>),
      DocA,
      PyDict(<< <<"documents", PyList(<<DocA>>)>>, <<"total", PyInt(1)>> >>),
      PyList(<<DocA>>) }

NoRequest == [verb |-> "", endpoint |-> "", args |-> <<>>]
NoResponse == [t |-> "NoResponse"]
NoReturn == [t |-> "NoReturn"]

\* what one invocation of client.request does: it raises, or it returns r
RequestOutcomes ==
    {[raised |-> TRUE, r |-> NoResponse]} \cup {[raised |-> FALSE, r |-> r] : r \in Responses}

\* the same call site wrapped in a retry
DispatchRetry(l, n, request) == Append(Append(l, n), n)

\* client.request(verb, endpoint, arguments) is invoked once by call number n
Dispatch(l, n, request) == Append(l, n)

\* every **kwargs mapping of at most MaxKwargs entries over the given keys
KwargsOver(keys, values) ==
    {d \in UNION {[1..n -> keys \X values] : n \in 0..MaxKwargs} :
        \A i, j \in DOMAIN d : d[i][1] = d[j][1] => i = j}

(***************************************************************************)
(* Documents (src/veryfi/documents.py).                                    *)
(***************************************************************************)
Documents_CATEGORIES ==
    PyList(<<PyStr("Advertising & Marketing"), PyStr("Automotive"),
             PyStr("Bank Charges & Fees"), PyStr("Legal & Professional Services"),
             PyStr("Insurance"), PyStr("Meals & Entertainment"),
             PyStr("Office Supplies & Software"), PyStr("Taxes & Licenses"),
             PyStr("Travel"), PyStr("Rent & Lease"), PyStr("Repairs & Maintenance"),
             PyStr("Payroll"), PyStr("Utilities"), PyStr("Job Supplies"),
             PyStr("Grocery")>>)

\* get_documents with the double underscore of created__gt dropped
get_documents_params_plain(a) ==
    LET p1 == IF Truthy(Arg(a, "q", None)) THEN SetItem(<<>>, "q", a.q) ELSE <<>>
        p2 == IF Truthy(Arg(a, "external_id", None))
              THEN SetItem(p1, "external_id", a.external_id) ELSE p1
        p3 == IF Truthy(Arg(a, "tag", None)) THEN SetItem(p2, "tag", a.tag) ELSE p2
        p4 == IF Truthy(Arg(a, "created_gt", None))
              THEN SetItem(p3, "created_gt", a.created_gt) ELSE p3
        p5 == IF Truthy(Arg(a, "created_gte", None))
              THEN SetItem(p4, "created__gte", a.created_gte) ELSE p4
        p6 == IF Truthy(Arg(a, "created_lt", None))
              THEN SetItem(p5, "created__lt", a.created_lt) ELSE p5
        p7 == IF Truthy(Arg(a, "created_lte", None))
              THEN SetItem(p6, "created__lte", a.created_lte) ELSE p6
    IN  Update(p7, a.kwargs)

\* request_params of get_documents, when the query string is built
get_documents_params(a) ==
    LET p1 == IF Truthy(Arg(a, "q", None)) THEN SetItem(<<>>, "q", a.q) ELSE <<>>
        p2 == IF Truthy(Arg(a, "external_id", None))
              THEN SetItem(p1, "external_id", a.external_id) ELSE p1
        p3 == IF Truthy(Arg(a, "tag", None)) THEN SetItem(p2, "tag", a.tag) ELSE p2
        p4 == IF Truthy(Arg(a, "created_gt", None))
              THEN SetItem(p3, "created__gt", a.created_gt) ELSE p3
        p5 == IF Truthy(Arg(a, "created_gte", None))
              THEN SetItem(p4, "created__gte", a.created_gte) ELSE p4
        p6 == IF Truthy(Arg(a, "created_lt", None))
              THEN SetItem(p5, "created__lt", a.created_lt) ELSE p5
        p7 == IF Truthy(Arg(a, "created_lte", None))
              THEN SetItem(p6, "created__lte", a.created_lte) ELSE p6
    IN  Update(p7, a.kwargs)

\* the request get_documents dispatches
get_documents_request(a) ==
    LET request_params == get_documents_params(a)
        pairs == [i \in DOMAIN request_params |->
                    request_params[i][1] \o "=" \o Format(request_params[i][2])]
        endpoint_name == IF request_params # <<>>
                         THEN "/documents/" \o "?" \o Join("&", pairs)
                         ELSE "/documents/"
    IN  [verb |-> "GET", endpoint |-> endpoint_name, args |-> <<>>]

\* get_documents handing back the response as it came
get_documents_return_raw(documents) == documents

\* what get_documents returns for the response `documents`
get_documents_return(documents) ==
    IF Contains(documents, "documents") THEN Get(documents.v, "documents") ELSE documents

\* the request get_document dispatches
get_document_request(a) ==
    [verb |-> "GET",
     endpoint |-> "/documents/" \o Format(a.document_id) \o "/",
     args |-> << <<"id", a.document_id>> >>]

\* get_document without its return statement
get_document_return_none(document) == None

\* what get_document returns for the response `document`
get_document_return(document) == document

\* process_document storing the caller's categories on the class
process_document_locals_store(a, cats) ==
    LET categories == Arg(a, "categories", None)
    IN  [categories |-> IF ~Truthy(categories) THEN cats ELSE categories,
         CATEGORIES |-> IF ~Truthy(categories) THEN cats ELSE categories]

\* process_document testing categories against None alone
process_document_locals_none(a, cats) ==
    LET categories == Arg(a, "categories", None)
    IN  [categories |-> IF categories = None THEN cats ELSE categories,
         CATEGORIES |-> cats]

\* process_document, lines 109-110: the local categories and the class
\* attribute after `if not categories: categories = self.CATEGORIES`
process_document_locals(a, cats) ==
    LET categories == Arg(a, "categories", None)
    IN  [categories |-> IF ~Truthy(categories) THEN cats ELSE categories,
         CATEGORIES |-> cats]

\* the request process_document dispatches, once the file is read
process_document_request(a, cats) ==
    LET file_name == basename(a.file_path)
        base64_encoded_string == b64encode(Files[a.file_path])
        request_arguments ==
            << <<"file_name", PyStr(ToStr(file_name))>>,
               <<"file_data", PyStr(base64_encoded_string)>>,
               <<"categories", process_document_locals(a, cats).categories>>,
               <<"auto_delete", Arg(a, "delete_after_processing", PyBool(FALSE))>> >>
    IN  [verb |-> "POST", endpoint |-> "/documents/",
         args |-> Update(request_arguments, a.kwargs)]

\* the request process_document_url dispatches
process_document_url_request(a) ==
    LET request_arguments ==
            << <<"auto_delete", Arg(a, "delete_after_processing", PyBool(FALSE))>>,
               <<"boost_mode", Arg(a, "boost_mode", PyInt(0))>>,
               <<"categories", Arg(a, "categories", None)>>,
               <<"external_id", Arg(a, "external_id", None)>>,
               <<"file_url", Arg(a, "file_url", None)>>,
               <<"file_urls", Arg(a, "file_urls", None)>>,
               <<"max_pages_to_process", Arg(a, "max_pages_to_process", None)>> >>
    IN  [verb |-> "POST", endpoint |-> "/documents/",
         args |-> Update(request_arguments, a.kwargs)]

\* the request delete_document dispatches
delete_document_request(a) ==
    [verb |-> "DELETE",
     endpoint |-> "/documents/" \o Format(a.document_id) \o "/",
     args |-> << <<"id", a.document_id>> >>]

\* the request update_document dispatches
update_document_request(a) ==
    [verb |-> "PUT",
     endpoint |-> "/documents/" \o Format(a.document_id) \o "/",
     args |-> a.kwargs]

\* the request get_line_items dispatches
get_line_items_request(a) ==
    [verb |-> "GET",
     endpoint |-> "/documents/" \o Format(a.document_id) \o "/line-items/",
     args |-> <<>>]

\* the request get_line_item dispatches
get_line_item_request(a) ==
    [verb |-> "GET",
     endpoint |-> "/documents/" \o Format(a.document_id) \o "/line-items/"
                    \o Format(a.line_item_id),
     args |-> <<>>]

\* Model(**payload).dict(exclude_none=True), for a payload the model accepts
model_dict(payload) == SelectSeq(payload, LAMBDA kv : kv[2] # None)

\* the request add_line_item dispatches, once AddLineItem accepts the payload
add_line_item_request(a) ==
    [verb |-> "POST",
     endpoint |-> "/documents/" \o Format(a.document_id) \o "/line-items/",
     args |-> model_dict(a.payload)]

\* the request update_line_item dispatches, once UpdateLineItem accepts the payload
update_line_item_request(a) ==
    [verb |-> "PUT",
     endpoint |-> "/documents/" \o Format(a.document_id) \o "/line-items/"
                    \o Format(a.line_item_id),
     args |-> model_dict(a.payload)]

\* the request delete_line_items dispatches
delete_line_items_request(a) ==
    [verb |-> "DELETE",
     endpoint |-> "/documents/" \o Format(a.document_id) \o "/line-items/",
     args |-> <<>>]

\* the request delete_line_item dispatches
delete_line_item_request(a) ==
    [verb |-> "DELETE",
     endpoint |-> "/documents/" \o Format(a.document_id) \o "/line-items/"
                    \o Format(a.line_item_id),
     args |-> <<>>]

\* the request add_tag dispatches
add_tag_request(a) ==
    [verb |-> "PUT",
     endpoint |-> "/documents/" \o Format(a.document_id) \o "/tags/",
     args |-> << <<"name", a.tag_name>> >>]

\* the request replace_tags dispatches
replace_tags_request(a) ==
    [verb |-> "PUT",
     endpoint |-> "/documents/" \o Format(a.document_id) \o "/",
     args |-> << <<"tags", a.tags>> >>]

\* the request add_tags dispatches
add_tags_request(a) ==
    [verb |-> "POST",
     endpoint |-> "/documents/" \o Format(a.document_id) \o "/tags/",
     args |-> << <<"tags", a.tags>> >>]

(***************************************************************************)
(* W9s (src/veryfi/w9s.py).                                                *)
(***************************************************************************)
\* the request process_w9_document_url dispatches
process_w9_document_url_request(a) ==
    LET file_name == IF Arg(a, "file_name", None) = None
                     THEN PyStr(ToStr(basename(a.file_url)))
                     ELSE a.file_name
        request_arguments ==
            << <<"file_name", file_name>>,
               <<"file_url", PyStr(ToStr(a.file_url))>> >>
    IN  [verb |-> "POST", endpoint |-> "/w9s/",
         args |-> Update(request_arguments, a.kwargs)]

\* the request process_w9_document dispatches, once the file is read
process_w9_document_request(a) ==
    LET file_name == IF Arg(a, "file_name", None) = None
                     THEN PyStr(ToStr(basename(a.file_path)))
                     ELSE a.file_name
        base64_encoded_string == b64encode(Files[a.file_path])
        request_arguments ==
            << <<"file_name", file_name>>,
               <<"file_data", PyStr(base64_encoded_string)>> >>
    IN  [verb |-> "POST", endpoint |-> "/w9s/",
         args |-> Update(request_arguments, a.kwargs)]

(***************************************************************************)
(* The arguments callers pass.                                             *)
(***************************************************************************)
DocumentIds == {PyInt(3), PyInt(42)}
LineItemIds == {PyInt(7)}
Url == "https://cdn/r.jpg"
UrlPath == <<"h", ":", "/", "/", "c", "/", "w", "9">>
Travel == PyList(<<PyStr("Travel")>>)

FilterValues(v) == {Absent, PyStr(""), PyStr(v)}

GetDocumentsArgs ==
    [q : FilterValues("inv"), external_id : FilterValues("e1"), tag : FilterValues("t1"),
     created_gt : FilterValues("g"), created_gte : FilterValues("ge"),
     created_lt : FilterValues("l"), created_lte : FilterValues("le"),
     kwargs : KwargsOver({"page", "created__gt", "created__lte"}, {PyStr(""), PyInt(5)})]

GetDocumentsNoArgs ==
    [q |-> Absent, external_id |-> Absent, tag |-> Absent, created_gt |-> Absent,
     created_gte |-> Absent, created_lt |-> Absent, created_lte |-> Absent,
     kwargs |-> <<>>]

SessionGetDocumentsArgs ==
    { GetDocumentsNoArgs,
      [GetDocumentsNoArgs EXCEPT !.q = PyStr("inv")],
      [GetDocumentsNoArgs EXCEPT !.created_gt = PyStr("g"),
                                 !.kwargs = << <<"page", PyInt(5)>> >>] }

ProcessDocumentArgs ==
    [file_path : Paths,
     categories : {Absent, None, PyList(<<>>), Travel},
     delete_after_processing : {Absent, PyBool(FALSE), PyBool(TRUE)},
     kwargs : KwargsOver({"auto_delete", "boost_mode"}, {PyBool(TRUE), PyInt(1)})]

SessionProcessDocumentArgs ==
    [file_path : Paths, categories : {Absent, Travel},
     delete_after_processing : {Absent}, kwargs : {<<>>}]

ProcessDocumentUrlArgs ==
    [file_url : {Absent, None, PyStr(Url)},
     file_urls : {Absent, None, PyList(<<PyStr(Url)>>)},
     categories : {Absent, PyList(<<>>), Travel},
     delete_after_processing : {Absent, PyBool(TRUE)},
     boost_mode : {Absent, PyInt(1)},
     external_id : {Absent, PyStr("e1")},
     max_pages_to_process : {Absent, PyInt(2)},
     kwargs : KwargsOver({"auto_delete", "confidence_details"}, {PyBool(TRUE), PyInt(1)})]

SessionProcessDocumentUrlArgs ==
    [file_url : {Absent, PyStr(Url)},
     file_urls : {Absent, PyList(<<PyStr(Url)>>)},
     categories : {Absent}, delete_after_processing : {Absent}, boost_mode : {Absent},
     external_id : {Absent}, max_pages_to_process : {Absent}, kwargs : {<<>>}]

DocumentArgs == [document_id : DocumentIds]
UpdateDocumentArgs ==
    [document_id : DocumentIds, kwargs : KwargsOver({"notes"}, {PyStr("paid")})]
LineItemArgs == [document_id : DocumentIds, line_item_id : LineItemIds]

Payloads ==
    { << <<"order", PyInt(1)>>, <<"description", PyStr("tea")>>, <<"total", PyInt(4)>> >>,
      << <<"description", PyStr("tea")>>, <<"total", None>> >> }

AddLineItemArgs == [document_id : DocumentIds, payload : Payloads]
UpdateLineItemArgs ==
    [document_id : DocumentIds, line_item_id : LineItemIds, payload : Payloads]
AddTagArgs == [document_id : DocumentIds, tag_name : {PyStr("paid")}]
TagsArgs == [document_id : DocumentIds, tags : {PyList(<<PyStr("paid"), PyStr("q3")>>)}]

W9UrlArgs ==
    [file_url : {UrlPath}, file_name : {Absent, PyStr("w9.pdf")},
     kwargs : KwargsOver({"bounding_boxes"}, {PyBool(TRUE)})]
W9Args ==
    [file_path : Paths, file_name : {Absent, PyStr("w9.pdf")}, kwargs : {<<>>}]

(***************************************************************************)
(* The state after construction (Client.__init__) and one call.            *)
(***************************************************************************)
Init ==
    /\ client = "client_base"
    /\ CATEGORIES = Documents_CATEGORIES
    /\ calls = 0
    /\ history = <<>>
    /\ log = <<>>
    /\ method = "none"
    /\ args = <<>>
    /\ outcome = "none"
    /\ req = NoRequest
    /\ resp = NoResponse
    /\ ret = NoReturn

\* the arguments a call of method m can be made with: those of the call that
\* is pending, or any of S while the session lasts
CallArgs(m, S) ==
    IF outcome = "pending" THEN (IF method = m THEN {args} ELSE {})
    ELSE IF calls < MaxCalls THEN S ELSE {}

\* One call of method m with arguments a.  It raises before it dispatches
\* when ~ok; otherwise it dispatches `request`, and returns `value` unless
\* client.request raises (o.raised).  cats is Documents.CATEGORIES afterwards.
Invoke(m, a, ok, request, o, value, cats) ==
    /\ calls' = calls + 1
    /\ method' = m
    /\ args' = a
    /\ client' = client
    /\ CATEGORIES' = cats
    /\ IF ~ok
       THEN /\ outcome' = "raised_before"
            /\ log' = log
            /\ req' = NoRequest
            /\ resp' = NoResponse
            /\ ret' = NoReturn
       ELSE /\ log' = Dispatch(log, calls + 1, request)
            /\ req' = request
            /\ IF o.raised
               THEN outcome' = "raised_request" /\ resp' = NoResponse /\ ret' = NoReturn
               ELSE outcome' = "returned" /\ resp' = o.r /\ ret' = value
    /\ history' = Append(history, outcome')

get_documents ==
    \E a \in CallArgs("get_documents", SessionGetDocumentsArgs), o \in RequestOutcomes :
        Invoke("get_documents", a, TRUE, get_documents_request(a), o,
               get_documents_return(o.r), CATEGORIES)

get_document ==
    \E a \in CallArgs("get_document", DocumentArgs), o \in RequestOutcomes :
        Invoke("get_document", a, TRUE, get_document_request(a), o,
               get_document_return(o.r), CATEGORIES)

process_document ==
    \E a \in CallArgs("process_document", SessionProcessDocumentArgs),
       o \in RequestOutcomes :
        Invoke("process_document", a, CanOpen(a.file_path),
               process_document_request(a, CATEGORIES), o, o.r,
               process_document_locals(a, CATEGORIES).CATEGORIES)

process_document_url ==
    \E a \in CallArgs("process_document_url", SessionProcessDocumentUrlArgs),
       o \in RequestOutcomes :
        Invoke("process_document_url", a, TRUE, process_document_url_request(a), o,
               o.r, CATEGORIES)

delete_document ==
    \E a \in CallArgs("delete_document", DocumentArgs), o \in RequestOutcomes :
        Invoke("delete_document", a, TRUE, delete_document_request(a), o,
               None, CATEGORIES)

update_document ==
    \E a \in CallArgs("update_document", UpdateDocumentArgs), o \in RequestOutcomes :
        Invoke("update_document", a, TRUE, update_document_request(a), o,
               o.r, CATEGORIES)

get_line_items ==
    \E a \in CallArgs("get_line_items", DocumentArgs), o \in RequestOutcomes :
        Invoke("get_line_items", a, TRUE, get_line_items_request(a), o,
               o.r, CATEGORIES)

get_line_item ==
    \E a \in CallArgs("get_line_item", LineItemArgs), o \in RequestOutcomes :
        Invoke("get_line_item", a, TRUE, get_line_item_request(a), o,
               o.r, CATEGORIES)

add_line_item ==
    \E a \in CallArgs("add_line_item", AddLineItemArgs), accepted \in BOOLEAN,
       o \in RequestOutcomes :
        Invoke("add_line_item", a, accepted, add_line_item_request(a), o,
               o.r, CATEGORIES)

update_line_item ==
    \E a \in CallArgs("update_line_item", UpdateLineItemArgs), accepted \in BOOLEAN,
       o \in RequestOutcomes :
        Invoke("update_line_item", a, accepted, update_line_item_request(a), o,
               o.r, CATEGORIES)

delete_line_items ==
    \E a \in CallArgs("delete_line_items", DocumentArgs), o \in RequestOutcomes :
        Invoke("delete_line_items", a, TRUE, delete_line_items_request(a), o,
               None, CATEGORIES)

delete_line_item ==
    \E a \in CallArgs("delete_line_item", LineItemArgs), o \in RequestOutcomes :
        Invoke("delete_line_item", a, TRUE, delete_line_item_request(a), o,
               None, CATEGORIES)

add_tag ==
    \E a \in CallArgs("add_tag", AddTagArgs), o \in RequestOutcomes :
        Invoke("add_tag", a, TRUE, add_tag_request(a), o, o.r, CATEGORIES)

replace_tags ==
    \E a \in CallArgs("replace_tags", TagsArgs), o \in RequestOutcomes :
        Invoke("replace_tags", a, TRUE, replace_tags_request(a), o, o.r, CATEGORIES)

add_tags ==
    \E a \in CallArgs("add_tags", TagsArgs), o \in RequestOutcomes :
        Invoke("add_tags", a, TRUE, add_tags_request(a), o, o.r, CATEGORIES)

process_w9_document_url ==
    \E a \in CallArgs("process_w9_document_url", W9UrlArgs), o \in RequestOutcomes :
        Invoke("process_w9_document_url", a, TRUE, process_w9_document_url_request(a),
               o, o.r, CATEGORIES)

process_w9_document ==
    \E a \in CallArgs("process_w9_document", W9Args), o \in RequestOutcomes :
        Invoke("process_w9_document", a, CanOpen(a.file_path),
               process_w9_document_request(a), o, o.r, CATEGORIES)

Next ==
    \/ get_documents
    \/ get_document
    \/ process_document
    \/ process_document_url
    \/ delete_document
    \/ update_document
    \/ get_line_items
    \/ get_line_item
    \/ add_line_item
    \/ update_line_item
    \/ delete_line_items
    \/ delete_line_item
    \/ add_tag
    \/ replace_tags
    \/ add_tags
    \/ process_w9_document_url
    \/ process_w9_document

\* a session: any sequence of at most MaxCalls public method calls
Spec == Init /\ [][Next]_vars

\* one call of get_documents, with its arguments drawn from GetDocumentsArgs
InitGetDocuments ==
    /\ client = "client_base"
    /\ CATEGORIES = Documents_CATEGORIES
    /\ calls = 0
    /\ history = <<>>
    /\ log = <<>>
    /\ method = "get_documents"
    /\ args \in GetDocumentsArgs
    /\ outcome = "pending"
    /\ req = NoRequest
    /\ resp = NoResponse
    /\ ret = NoReturn

NextGetDocuments == outcome = "pending" /\ get_documents

SpecGetDocuments == InitGetDocuments /\ [][NextGetDocuments]_vars

\* one call of process_document or process_document_url, with its arguments
\* drawn from ProcessDocumentArgs or ProcessDocumentUrlArgs
InitProcess ==
    /\ client = "client_base"
    /\ CATEGORIES = Documents_CATEGORIES
    /\ calls = 0
    /\ history = <<>>
    /\ log = <<>>
    /\ \/ method = "process_document" /\ args \in ProcessDocumentArgs
       \/ method = "process_document_url" /\ args \in ProcessDocumentUrlArgs
    /\ outcome = "pending"
    /\ req = NoRequest
    /\ resp = NoResponse
    /\ ret = NoReturn

NextProcess ==
    \/ outcome = "pending" /\ process_document
    \/ outcome = "pending" /\ process_document_url

SpecProcess == InitProcess /\ [][NextProcess]_vars

(***************************************************************************)
(* Properties.                                                             *)
(***************************************************************************)
DeleteMethods == {"delete_document", "delete_line_items", "delete_line_item"}

\* C1 as stated: every public method that returns hands back the response
\* of client.request unmodified.
C1_ReturnsResponse == outcome = "returned" => ret = resp

\* C1, amended: every public method that returns hands back the response of
\* client.request unmodified, except that delete_document, delete_line_items
\* and delete_line_item return None, and that get_documents does so only
\* when the response has no "documents" entry.
C1_ReturnsResponseOrNone ==
    outcome = "returned" =>
        IF method \in DeleteMethods THEN ret = None
        ELSE IF method = "get_documents" THEN (~Contains(resp, "documents") => ret = resp)
        ELSE ret = resp

C1_Witness ==
    /\ outcome = "returned"
    /\ method = "get_document"
    /\ resp = DocA
    /\ ret = DocA

\* C2: every POST that process_document_url dispatches carries a non-null
\* file_url or a non-null file_urls.
C2_UrlRequestNamesAFile ==
    (method = "process_document_url" /\ req # NoRequest) =>
        \/ Get(req.args, "file_url") # None
        \/ Get(req.args, "file_urls") # None

\* the number of requests call number c dispatched
Dispatched(c) == Cardinality({i \in DOMAIN log : log[i] = c})

\* C3: each call invokes client.request at most once, exactly once when it
\* completes (or when client.request itself raises), and not at all when it
\* fails before dispatch, which only the file-reading and payload-validating
\* methods do; the requests are dispatched in the order of the calls.
C3_OneRequestPerCall ==
    /\ Len(history) = calls
    /\ \A c \in 1..calls :
        /\ Dispatched(c) <= 1
        /\ history[c] = "returned" => Dispatched(c) = 1
        /\ history[c] = "raised_request" => Dispatched(c) = 1
        /\ history[c] = "raised_before" => Dispatched(c) = 0
    /\ \A i \in DOMAIN log : log[i] \in 1..calls
    /\ \A i, j \in DOMAIN log : i < j => log[i] < log[j]
    /\ outcome = "raised_before" =>
        /\ req = NoRequest
        /\ method \in {"process_document", "process_w9_document",
                       "add_line_item", "update_line_item"}
    /\ outcome \in {"returned", "raised_request"} => req # NoRequest

C3_Witness ==
    /\ calls = 3
    /\ history = <<"returned", "raised_before", "returned">>
    /\ log = <<1, 3>>
    /\ method = "process_document"

\* the request a call of method m with arguments a dispatches in a freshly
\* constructed client
RequestOf(m, a) ==
    CASE m = "get_documents" -> get_documents_request(a)
      [] m = "get_document" -> get_document_request(a)
      [] m = "process_document" -> process_document_request(a, Documents_CATEGORIES)
      [] m = "process_document_url" -> process_document_url_request(a)
      [] m = "delete_document" -> delete_document_request(a)
      [] m = "update_document" -> update_document_request(a)
      [] m = "get_line_items" -> get_line_items_request(a)
      [] m = "get_line_item" -> get_line_item_request(a)
      [] m = "add_line_item" -> add_line_item_request(a)
      [] m = "update_line_item" -> update_line_item_request(a)
      [] m = "delete_line_items" -> delete_line_items_request(a)
      [] m = "delete_line_item" -> delete_line_item_request(a)
      [] m = "add_tag" -> add_tag_request(a)
      [] m = "replace_tags" -> replace_tags_request(a)
      [] m = "add_tags" -> add_tags_request(a)
      [] m = "process_w9_document_url" -> process_w9_document_url_request(a)
      [] m = "process_w9_document" -> process_w9_document_request(a)

\* C4: after any sequence of calls the client reference and
\* Documents.CATEGORIES are what construction made them, and the request a
\* call dispatches is the one the same call dispatches in a fresh client.
C4_NoPersistentState ==
    /\ client = "client_base"
    /\ CATEGORIES = Documents_CATEGORIES
    /\ req # NoRequest => req = RequestOf(method, args)

C4_Witness ==
    /\ calls = 3
    /\ history = <<"returned", "returned", "returned">>
    /\ method = "process_document"
    /\ args.categories = Absent
    /\ Get(req.args, "categories") = Documents_CATEGORIES

\* the filters of get_documents, <<parameter, service name>>, in the order
\* the query string carries them
Filters ==
    << <<"q", "q">>, <<"external_id", "external_id">>, <<"tag", "tag">>,
       <<"created_gt", "created__gt">>, <<"created_gte", "created__gte">>,
       <<"created_lt", "created__lt">>, <<"created_lte", "created__lte">> >>

\* the filters supplied with a non-empty value
Supplied(a) == SelectSeq(Filters, LAMBDA f : a[f[1]] \notin {Absent, None, PyStr("")})

\* the endpoint whose query string carries the given pairs
QueryEndpoint(pairs) ==
    IF pairs = <<>> THEN "/documents/"
    ELSE "/documents/?" \o
         Join("&", [i \in DOMAIN pairs |-> pairs[i][1] \o "=" \o Format(pairs[i][2])])

\* the supplied filters under their service names, then the kwargs pairs
FiltersThenKwargs(a) ==
    LET sf == Supplied(a)
    IN  [i \in DOMAIN sf |-> <<sf[i][2], a[sf[i][1]]>>] \o a.kwargs

\* the supplied filters under their service names, each with the value
\* kwargs gives that name if it gives one, then the other kwargs pairs
FiltersMergedWithKwargs(a) ==
    LET sf == Supplied(a)
        names == {sf[i][2] : i \in DOMAIN sf}
    IN  [i \in DOMAIN sf |->
            <<sf[i][2], IF HasKey(a.kwargs, sf[i][2]) THEN Get(a.kwargs, sf[i][2])
                        ELSE a[sf[i][1]]>>]
        \o SelectSeq(a.kwargs, LAMBDA kv : kv[1] \notin names)

\* C5 as stated: the GET of get_documents has an empty argument mapping and
\* a query string made of one pair per filter supplied with a non-empty
\* value, under its service name, followed by the kwargs pairs.
C5_QueryIsFiltersThenKwargs ==
    (method = "get_documents" /\ req # NoRequest) =>
        /\ req.verb = "GET"
        /\ req.args = <<>>
        /\ req.endpoint = QueryEndpoint(FiltersThenKwargs(args))
        /\ \A i \in DOMAIN Filters :
            HasKey(get_documents_params(args), Filters[i][2])
                <=> args[Filters[i][1]] \notin {Absent, None, PyStr("")}

\* C5, amended: the same, except that a kwargs entry named like a service
\* name counts as that filter: it puts the pair in the query string when the
\* filter was not supplied, and replaces the value, in place, when it was.
C5_QueryIsFiltersMergedWithKwargs ==
    (method = "get_documents" /\ req # NoRequest) =>
        /\ req.verb = "GET"
        /\ req.args = <<>>
        /\ req.endpoint = QueryEndpoint(FiltersMergedWithKwargs(args))
        /\ (Supplied(args) = <<>> /\ args.kwargs = <<>>) => req.endpoint = "/documents/"

C5_Witness ==
    /\ method = "get_documents"
    /\ req.endpoint = "/documents/?q=inv&created__gt=5&created__lte=le"
    /\ args.created_gt = PyStr("g")
    /\ args.tag = PyStr("")
    /\ args.kwargs = << <<"created__gt", PyInt(5)>> >>

\* C6: get_documents returns the value under "documents" when the response
\* mapping has that key, and the response itself otherwise.
C6_ReturnsDocuments ==
    (method = "get_documents" /\ outcome = "returned") =>
        IF resp.t = "dict" /\ HasKey(resp.v, "documents")
        THEN ret = Get(resp.v, "documents")
        ELSE ret = resp

C6_Witness ==
    /\ method = "get_documents"
    /\ outcome = "returned"
    /\ resp.t = "dict"
    /\ HasKey(resp.v, "documents")
    /\ ret = PyList(<<DocA>>)

\* C7 as stated: the POST of process_document carries the caller's
\* categories whenever they are supplied and the 15-entry default only when
\* they are not, and carries delete_after_processing, False by default,
\* under "auto_delete".
C7_SendsSuppliedCategories ==
    (method = "process_document" /\ req # NoRequest) =>
        /\ Get(req.args, "categories") =
            (IF args.categories \in {Absent, None} THEN Documents_CATEGORIES
             ELSE args.categories)
        /\ Len(Documents_CATEGORIES.v) = 15
        /\ Get(req.args, "auto_delete") = Arg(args, "delete_after_processing", PyBool(FALSE))

\* C7, amended: the POST of process_document carries the caller's categories
\* when they are supplied and not empty, and the 15-entry default when they
\* are not supplied or empty; it carries delete_after_processing, False by
\* default, under "auto_delete" unless kwargs has an "auto_delete" entry,
\* whose value it then carries.
C7_SendsNonEmptyCategories ==
    (method = "process_document" /\ req # NoRequest) =>
        /\ Get(req.args, "categories") =
            (IF args.categories \in {Absent, None, PyList(<<>>)} THEN Documents_CATEGORIES
             ELSE args.categories)
        /\ Len(Documents_CATEGORIES.v) = 15
        /\ Get(req.args, "auto_delete") =
            (IF HasKey(args.kwargs, "auto_delete") THEN Get(args.kwargs, "auto_delete")
             ELSE Arg(args, "delete_after_processing", PyBool(FALSE)))

C7_Witness ==
    /\ method = "process_document"
    /\ outcome = "returned"
    /\ args.categories = PyList(<<>>)
    /\ args.delete_after_processing = Absent
    /\ args.kwargs = <<>>
    /\ Get(req.args, "categories") = Documents_CATEGORIES
    /\ Get(req.args, "auto_delete") = PyBool(FALSE)

====
